---- MODULE Spec2Model ----
(***************************************************************************)
(* Session and key/value-cache management of transformer-rs:               *)
(*   - VecSliceRange   (service/src/session/vec_slice_range.rs)            *)
(*   - Cache           (service/src/session/cache.rs)                      *)
(*   - the device task (service/src/nvidia.rs)                             *)
(* Spec        drives one Cache through its public operations.             *)
(* SpecStorage drives one Cache and its tensor through generation steps.   *)
(* SpecTracker drives a VecSliceRange, free-standing or inside a Cache.    *)
(* SpecDup     drives a Cache and its duplicate side by side.              *)
(* SpecWorker  drives the device task's command loop.                      *)
(***************************************************************************)
EXTENDS Integers, Sequences, FiniteSets, TLC

----------------------------------------------------------------------------
(* Bounds of the model *)

\* longest token sequence a cache may hold
MaxTokens == 6
\* largest value of Cache::pos
MaxPos == 2
\* capacity configuration: maximum sequence length, sink size, tail size
MaxSeqLen == 4
StartSize == 1
EndSize == 1
\* tail size handed to reset_within_one_range
OneRangeMin == 2

\* largest range bound of a free-standing VecSliceRange, most ranges in it
MaxIdx == 3
MaxRanges == 2

\* token ids (utok) other than end-of-sequence
Vocab == {1, 4}
\* prompts handed to extend / reset_with
Prompts == {<<1>>, <<1, 2, 3>>}

Min(a, b) == IF a <= b THEN a ELSE b

\* the value of a call that returns nothing
NoRet == -1

----------------------------------------------------------------------------
(* VecSliceRange: Vec<Range<usize>>, a sequence of [start, end) records *)

Rng(s, e) == [start |-> s, end |-> e]

\* Range<usize>::len(): 0 when start >= end
RangeLen(r) == IF r.end >= r.start THEN r.end - r.start ELSE 0

\* VecSliceRange::try_from: TRUE iff none of its assertions fails
try_from_ok(v) ==
    /\ \A i \in 1..Len(v) : v[i].start <= v[i].end
    /\ \A i \in 1..(Len(v) - 1) : v[i].end <= v[i + 1].start

\* From<Range<usize>>
from_range(s, e) == <<Rng(s, e)>>

is_empty(v) == Len(v) = 0

\* start() / end() unwrap the first / last range: defined on non-empty only
start(v) == v[1].start
end(v) == v[Len(v)].end

RECURSIVE SumLen(_, _)
SumLen(v, i) == IF i > Len(v) THEN 0 ELSE RangeLen(v[i]) + SumLen(v, i + 1)

len(v) == SumLen(v, 1)

\* extend_to: panics on an empty vector (end() unwraps) and on end < end()
extend_to_ok(v, e) == ~is_empty(v) /\ e >= end(v)
extend_to(v, e) == [v EXCEPT ![Len(v)].end = e]

\* sub_overall: assert!(self.start() >= n)
sub_overall_ok(v, n) == ~is_empty(v) /\ start(v) >= n

\* sub_overall that renumbers the first range only
sub_overall_first_only(v, n) ==
    [i \in 1..Len(v) |-> IF i = 1 THEN Rng(v[i].start - n, v[i].end - n) ELSE v[i]]

sub_overall(v, n) == [i \in 1..Len(v) |-> Rng(v[i].start - n, v[i].end - n)]

\* try_shrink_end: the closure of any() accepts range i
Covers(r, new_end) == r.start <= new_end /\ r.end >= new_end

\* index (1-based) of the first accepted range, 0 when there is none
CoverIndex(v, new_end) ==
    IF \E i \in 1..Len(v) : Covers(v[i], new_end)
    THEN CHOOSE i \in 1..Len(v) :
            /\ Covers(v[i], new_end)
            /\ \A j \in 1..(i - 1) : ~Covers(v[j], new_end)
    ELSE 0

try_shrink_end_ret(v, new_end) == CoverIndex(v, new_end) # 0

\* try_shrink_end that trims the covering range but keeps the later ones
try_shrink_end_keep_later(v, new_end) ==
    LET index == CoverIndex(v, new_end) IN
    IF index = 0 THEN v
    ELSE [v EXCEPT ![index].end = new_end]

try_shrink_end(v, new_end) ==
    LET index == CoverIndex(v, new_end) IN
    IF index = 0 THEN v
    ELSE LET t == SubSeq(v, 1, index) IN
         IF t[index].start = new_end
         THEN SubSeq(t, 1, index - 1)
         ELSE [t EXCEPT ![index].end = new_end]

\* A call on a VecSliceRange yields
\*   [st |-> "ok" | "panic", v |-> the vector after, ret |-> values returned]
Unit == <<>>
TDone(v, r) == [st |-> "ok", v |-> v, ret |-> r]
TPanic(v) == [st |-> "panic", v |-> v, ret |-> Unit]

\* try_from without its assertions
try_from_unchecked(old, v) == TDone(v, Unit)

\* VecSliceRange::try_from(v), called where the vector old is held
try_from(old, v) == IF try_from_ok(v) THEN TDone(v, Unit) ELSE TPanic(old)

\* extend_to without the test of end against end()
extend_to_unchecked(v, e) ==
    IF is_empty(v) THEN TPanic(v) ELSE TDone(extend_to(v, e), Unit)

\* VecSliceRange::extend_to as a call: the panics, then the assignment
extend_to_call(v, e) ==
    IF ~extend_to_ok(v, e) THEN TPanic(v) ELSE TDone(extend_to(v, e), Unit)

\* VecSliceRange::sub_overall as a call: the assertion, then the loop
sub_overall_call(v, n) ==
    IF ~sub_overall_ok(v, n) THEN TPanic(v) ELSE TDone(sub_overall(v, n), Unit)

\* VecSliceRange::try_shrink_end as a call: never panics, returns a bool
try_shrink_end_call(v, new_end) ==
    TDone(try_shrink_end(v, new_end), <<try_shrink_end_ret(v, new_end)>>)

----------------------------------------------------------------------------
(* Cache: tokens, pos, cached.  The tensor is modelled by the variable     *)
(* phys of the specification.  Every operation yields                      *)
(*   [st |-> "ok" | "none" | "panic", c |-> cache after, ret |-> value]    *)

Done(c, r) == [st |-> "ok", c |-> c, ret |-> r]
Panic(c) == [st |-> "panic", c |-> c, ret |-> NoRet]
None(c) == [st |-> "none", c |-> c, ret |-> NoRet]

\* Cache::new
new(tokens) == [tokens |-> tokens, pos |-> 0, cached |-> from_range(0, 0)]

\* revert that truncates tokens but forgets to shrink cached
revert_no_shrink(c, pos) ==
    IF is_empty(c.cached) \/ start(c.cached) # 0 THEN Panic(c)
    ELSE IF pos < c.pos THEN None(c)
    ELSE LET l == pos - c.pos IN
         IF ~try_shrink_end_ret(c.cached, l) THEN None(c)
         ELSE Done([c EXCEPT !.tokens = SubSeq(c.tokens, 1, Min(l, Len(c.tokens)))],
                   len(c.cached))

\* revert that truncates tokens before it knows whether cached can shrink
revert_truncate_first(c, pos) ==
    IF is_empty(c.cached) \/ start(c.cached) # 0 THEN Panic(c)
    ELSE IF pos < c.pos THEN None(c)
    ELSE LET l == pos - c.pos
             t == [c EXCEPT !.tokens = SubSeq(c.tokens, 1, Min(l, Len(c.tokens)))]
         IN  IF ~try_shrink_end_ret(c.cached, l) THEN None(t)
             ELSE LET cd == try_shrink_end(c.cached, l) IN
                  Done([t EXCEPT !.cached = cd], len(cd))

\* revert without the assertion that the cache is clean
revert_unchecked(c, pos) ==
    IF is_empty(c.cached) THEN Panic(c)
    ELSE IF pos < c.pos THEN None(c)
    ELSE LET l == pos - c.pos IN
         IF ~try_shrink_end_ret(c.cached, l) THEN None(c)
         ELSE LET cd == try_shrink_end(c.cached, l) IN
              Done([c EXCEPT !.cached = cd,
                             !.tokens = SubSeq(c.tokens, 1, Min(l, Len(c.tokens)))],
                   len(cd))

\* revert that also moves pos to the position it was given
revert_moves_pos(c, pos) ==
    IF is_empty(c.cached) \/ start(c.cached) # 0 THEN Panic(c)
    ELSE IF pos < c.pos THEN None(c)
    ELSE LET l == pos - c.pos IN
         IF ~try_shrink_end_ret(c.cached, l) THEN None(c)
         ELSE LET cd == try_shrink_end(c.cached, l) IN
              Done([c EXCEPT !.cached = cd, !.pos = pos,
                             !.tokens = SubSeq(c.tokens, 1, Min(l, Len(c.tokens)))],
                   len(cd))

\* Cache::revert
revert(c, pos) ==
    IF is_empty(c.cached) \/ start(c.cached) # 0 THEN Panic(c)
    ELSE IF pos < c.pos THEN None(c)
    ELSE LET l == pos - c.pos IN
         IF ~try_shrink_end_ret(c.cached, l) THEN None(c)
         ELSE LET cd == try_shrink_end(c.cached, l) IN
              Done([c EXCEPT !.cached = cd,
                             !.tokens = SubSeq(c.tokens, 1, Min(l, Len(c.tokens)))],
                   len(cd))

\* Cache::extend
extend(c, tokens) == Done([c EXCEPT !.tokens = c.tokens \o tokens], NoRet)

\* Cache::query is defined iff cached.end() is and the slice start is in range
query_ok(c) == ~is_empty(c.cached) /\ end(c.cached) <= Len(c.tokens)
query(c) == SubSeq(c.tokens, end(c.cached) + 1, Len(c.tokens))

\* as_ctx that addresses the tensor by tokens index, gaps included
as_ctx_uncompacted(c) == [lo |-> end(c.cached), hi |-> Len(c.tokens)]

\* Cache::as_ctx: the range of the QueryContext
as_ctx_ok(c) == ~is_empty(c.cached) /\ end(c.cached) <= Len(c.tokens)
as_ctx(c) == [lo |-> len(c.cached),
              hi |-> Len(c.tokens) - end(c.cached) + len(c.cached)]

\* push that appends the token before it extends cached
push_swapped(c, token) ==
    IF ~extend_to_ok(c.cached, Len(c.tokens)) THEN Panic(c)
    ELSE Done([c EXCEPT !.cached = extend_to(c.cached, Len(c.tokens) + 1),
                        !.tokens = Append(c.tokens, token)], NoRet)

\* Cache::push
push(c, token) ==
    IF ~extend_to_ok(c.cached, Len(c.tokens)) THEN Panic(c)
    ELSE Done([c EXCEPT !.cached = extend_to(c.cached, Len(c.tokens)),
                        !.tokens = Append(c.tokens, token)], NoRet)

\* Cache::end
cache_end(c) == c.pos + Len(c.tokens)

\* Cache::slice_tail
slice_tail_ok(c, pos) == pos >= c.pos /\ pos - c.pos <= Len(c.tokens)
slice_tail(c, pos) == SubSeq(c.tokens, pos - c.pos + 1, Len(c.tokens))

\* the quantity both window resets compare against max
CompactedLen(c) == Len(c.tokens) - end(c.cached) + len(c.cached)

\* Cache::reset_within_one_range
reset_within_one_range(c, min, max) ==
    IF is_empty(c.cached) \/ end(c.cached) > Len(c.tokens) THEN Panic(c)
    ELSE IF CompactedLen(c) >= max
    THEN IF Len(c.tokens) < min THEN Panic(c)
         ELSE Done([c EXCEPT !.cached =
                       from_range(Len(c.tokens) - min, Len(c.tokens) - min)], NoRet)
    ELSE Done(c, NoRet)

\* window reset that keeps the whole first range as the sink
reset_untruncated(c, start_size, end_size, max) ==
    IF is_empty(c.cached) \/ end(c.cached) > Len(c.tokens) THEN Panic(c)
    ELSE IF CompactedLen(c) >= max
    THEN LET marker == Rng(Len(c.tokens) - end_size, Len(c.tokens) - end_size)
             v == <<c.cached[1], marker>>
         IN  IF try_from_ok(v) THEN Done([c EXCEPT !.cached = v], NoRet)
             ELSE Panic(c)
    ELSE Done(c, NoRet)

\* window reset that also drops the tokens of the span it discards
reset_dropping_middle(c, start_size, end_size, max) ==
    IF is_empty(c.cached) \/ end(c.cached) > Len(c.tokens) THEN Panic(c)
    ELSE IF CompactedLen(c) >= max
    THEN IF Len(c.tokens) < end_size THEN Panic(c)
         ELSE LET first_range == Rng(c.cached[1].start,
                                     Min(c.cached[1].end, start_size))
                  marker == Rng(Len(c.tokens) - end_size, Len(c.tokens) - end_size)
                  v == <<first_range, marker>>
              IN  IF ~try_from_ok(v) THEN Panic(c)
                  ELSE Done([c EXCEPT
                          !.tokens = SubSeq(c.tokens, 1, first_range.end)
                                     \o SubSeq(c.tokens, marker.start + 1, Len(c.tokens)),
                          !.cached = <<first_range,
                                       Rng(first_range.end, first_range.end)>>], NoRet)
    ELSE Done(c, NoRet)

\* Cache::reset_within_start_and_end_range
reset_within_start_and_end_range(c, start_size, end_size, max) ==
    IF is_empty(c.cached) \/ end(c.cached) > Len(c.tokens) THEN Panic(c)
    ELSE IF CompactedLen(c) >= max
    THEN IF Len(c.tokens) < end_size THEN Panic(c)
         ELSE LET first_range == Rng(c.cached[1].start,
                                     Min(c.cached[1].end, start_size))
                  marker == Rng(Len(c.tokens) - end_size, Len(c.tokens) - end_size)
                  v == <<first_range, marker>>
              IN  IF try_from_ok(v) THEN Done([c EXCEPT !.cached = v], NoRet)
                  ELSE Panic(c)
    ELSE Done(c, NoRet)

\* Cache::reset_with
reset_with(c, tokens, pos) ==
    Done([tokens |-> tokens, pos |-> pos, cached |-> from_range(0, 0)], NoRet)

\* cleanup_before_start that truncates tokens without moving them down first
cleanup_no_copy(c) ==
    IF is_empty(c.cached) THEN Panic(c)
    ELSE LET to_remove == start(c.cached) IN
         IF to_remove > 0
         THEN IF to_remove > Len(c.tokens) \/ ~sub_overall_ok(c.cached, to_remove)
              THEN Panic(c)
              ELSE Done([tokens |-> SubSeq(c.tokens, 1, Len(c.tokens) - to_remove),
                         pos |-> c.pos + to_remove,
                         cached |-> sub_overall(c.cached, to_remove)], NoRet)
         ELSE Done(c, NoRet)

\* Cache::cleanup_before_start
cleanup_before_start(c) ==
    IF is_empty(c.cached) THEN Panic(c)
    ELSE LET to_remove == start(c.cached) IN
         IF to_remove > 0
         THEN IF to_remove > Len(c.tokens) \/ ~sub_overall_ok(c.cached, to_remove)
              THEN Panic(c)
              ELSE Done([tokens |-> SubSeq(c.tokens, to_remove + 1, Len(c.tokens)),
                         pos |-> c.pos + to_remove,
                         cached |-> sub_overall(c.cached, to_remove)], NoRet)
         ELSE Done(c, NoRet)

\* Cache::get_last_cached_range_len
get_last_cached_range_len(c) ==
    IF is_empty(c.cached) THEN Panic(c)
    ELSE Done(c, RangeLen(c.cached[Len(c.cached)]))

----------------------------------------------------------------------------
(* One Cache driven through its operations *)

VARIABLES
    cache,      \* the Cache: [tokens, pos, cached]
    phys,       \* the tensor: slot -> absolute position of the token whose
                \* entry the forward pass wrote there last (-1: never written)
    ctx,        \* range of the QueryContext the last operation handed to the
                \* forward pass (NoCtx when it handed none)
    op          \* the last operation, its argument, outcome and return value


\* the tensor is allocated for the maximum sequence length
Capacity == MaxSeqLen

Slots == 0..(Capacity - 1)

NoCtx == [lo |-> 0, hi |-> 0, windowed |-> FALSE]

Op(name, arg, r) == [name |-> name, arg |-> arg, st |-> r.st, ret |-> r.ret]

\* the forward pass writes the entries of the pending tokens into the slots
\* of the query context's range, in order
WriteCtx(c, ph) ==
    LET r == as_ctx(c) IN
    [i \in Slots |-> IF r.lo <= i /\ i < r.hi
                     THEN c.pos + end(c.cached) + (i - r.lo)
                     ELSE ph[i]]

\* handles of the tensors in the heap; the Cache under test owns OrigHandle
Handles == {1, 2}
OrigHandle == 1

\* CausalLM::duplicate_cache(cache, pos): a new tensor that holds a copy of
\* the first pos entries of cache
duplicate_cache(hp, h, pos) ==
    LET nh == CHOOSE x \in Handles : x # h IN
    [h |-> nh,
     heap |-> [hp EXCEPT ![nh] = [i \in Slots |-> IF i < pos THEN hp[h][i] ELSE -1]]]

\* duplicate that hands its own tensor to the copy
duplicate_aliased(c, hp, h) ==
    IF is_empty(c.cached) \/ start(c.cached) # 0
    THEN [st |-> "panic", c |-> c, ret |-> NoRet, h |-> h, heap |-> hp]
    ELSE [st |-> "ok", c |-> [tokens |-> c.tokens, pos |-> c.pos, cached |-> c.cached],
          ret |-> NoRet, h |-> h, heap |-> hp]

\* Cache::duplicate of the cache c whose tensor is heap[h]: the new Cache in
\* field c, the handle of its tensor in h, the heap after the call in heap
duplicate(c, hp, h) ==
    IF is_empty(c.cached) \/ start(c.cached) # 0
    THEN [st |-> "panic", c |-> c, ret |-> NoRet, h |-> h, heap |-> hp]
    ELSE LET d == duplicate_cache(hp, h, end(c.cached)) IN
         [st |-> "ok", c |-> [tokens |-> c.tokens, pos |-> c.pos, cached |-> c.cached],
          ret |-> NoRet, h |-> d.h, heap |-> d.heap]

----------------------------------------------------------------------------
(* The device task: state of nvidia::task and of its channels *)

VARIABLES
    queue,      \* commands in the channel, oldest first
    open,       \* some Sender of the command channel is still alive
    sessions,   \* the HashMap id -> session context (its Cache)
    pc,         \* where the task is: "recv", "lock", "decode", "loop",
                \* "exited", "panicked"
    cur,        \* the command being processed (NoCmd in recv)
    token,      \* the local `token`
    rxAlive,    \* the Receiver of cur's reply channel is still alive
    sampleLock, \* holder of the Mutex<SampleArgs>: "free", "worker", "client"
    reply,      \* tokens sent on the reply channel of the last Infer
    sampled,    \* tokens the forward pass returned during the last Infer
    fed,        \* prompts handed to request() during the last Infer
    arrived,    \* number of commands submitted so far
    lastDone,   \* arrival number of the last command fully processed
    during,     \* arrival numbers of the Drops submitted while an Infer of
                \* the same id was generating
    live        \* ids whose last processed command was an Infer

wvars == <<queue, open, sessions, pc, cur, token, rxAlive, sampleLock,
           reply, sampled, fed, arrived, lastDone, during, live>>

----------------------------------------------------------------------------
(* A free-standing VecSliceRange, and the duplicate of the Cache *)

VARIABLES
    tr,         \* the VecSliceRange
    top,        \* the last operation on tr, its argument, outcome and value
    dup,        \* the Cache made by duplicate(): [made, c, h], h the handle
                \* of its tensor
    heap,       \* tensors by handle: handle -> slot -> absolute position of
                \* the entry written there last (-1: never written)
    who         \* which Cache the last operation acted on: "orig", "copy"

tvars == <<tr, top>>
dvars == <<dup, heap, who>>

\* session ids
Ids == {1, 2}
\* prompts of Infer commands
InferPrompts == {<<5, 6>>}
\* host.eos_token_id()
Eos == 2
\* tokens the forward pass may sample besides Eos
Samples == {7, 8}

\* most tokens one Infer generates before the model emits Eos
MaxGen == 2
\* most commands ever submitted
MaxCmds == 2
\* most commands waiting in the channel
MaxQueue == 2

NoCmd == [kind |-> "None", id |-> 0, prompt |-> <<>>, seq |-> 0]
NoToken == -1

Infer(id, prompt, n) == [kind |-> "Infer", id |-> id, prompt |-> prompt, seq |-> n]
Drop(id, n) == [kind |-> "Drop", id |-> id, prompt |-> <<>>, seq |-> n]

Generating == pc \in {"lock", "decode", "loop"}

InitWorkerVars ==
    /\ queue = <<>>
    /\ open = TRUE
    /\ sessions = [i \in {} |-> new(<<>>)]
    /\ pc = "recv"
    /\ cur = NoCmd
    /\ token = NoToken
    /\ rxAlive = TRUE
    /\ sampleLock = "free"
    /\ reply = <<>>
    /\ sampled = <<>>
    /\ fed = <<>>
    /\ arrived = 0
    /\ lastDone = 0
    /\ during = {}
    /\ live = {}

InitCacheVars ==
    /\ cache = new(<<>>)
    /\ phys = [i \in Slots |-> -1]
    /\ ctx = NoCtx
    /\ op = [name |-> "new", arg |-> <<>>, st |-> "ok", ret |-> NoRet]

\* Cache::extend
Extend(p) ==
    /\ Len(cache.tokens) + Len(p) <= MaxTokens
    /\ LET r == extend(cache, p) IN
       /\ cache' = r.c
       /\ op' = Op("extend", p, r)
    /\ ctx' = NoCtx
    /\ UNCHANGED phys
    /\ UNCHANGED <<wvars, tvars, dvars>>

\* Cache::push
Push(t) ==
    /\ Len(cache.tokens) < MaxTokens
    /\ LET r == push(cache, t) IN
       /\ cache' = r.c
       /\ op' = Op("push", t, r)
    /\ ctx' = NoCtx
    /\ UNCHANGED phys
    /\ UNCHANGED <<wvars, tvars, dvars>>

\* one forward-pass step over as_ctx() followed by Cache::push of the sample
StepCommit(t) ==
    /\ Len(cache.tokens) < MaxTokens
    /\ UNCHANGED <<wvars, tvars, dvars>>
    /\ IF ~as_ctx_ok(cache)
       THEN /\ op' = Op("step_commit", t, Panic(cache))
            /\ ctx' = NoCtx
            /\ UNCHANGED <<cache, phys>>
       ELSE /\ as_ctx(cache).hi <= Capacity
            /\ ctx' = [lo |-> as_ctx(cache).lo, hi |-> as_ctx(cache).hi,
                       windowed |-> FALSE]
            /\ phys' = WriteCtx(cache, phys)
            /\ LET r == push(cache, t) IN
               /\ cache' = r.c
               /\ op' = Op("step_commit", t, r)

\* Cache::reset_within_start_and_end_range(StartSize, EndSize, MaxSeqLen)
EvictWindow ==
    /\ LET r == reset_within_start_and_end_range(cache, StartSize, EndSize, MaxSeqLen) IN
       /\ cache' = r.c
       /\ op' = Op("evict_window", <<>>, r)
    /\ ctx' = NoCtx
    /\ UNCHANGED phys
    /\ UNCHANGED <<wvars, tvars, dvars>>

\* a generation step of a session: the window reset, then the query context,
\* the forward pass over it and the push of the sampled token
GenStep(t) ==
    /\ Len(cache.tokens) < MaxTokens
    /\ UNCHANGED <<wvars, tvars, dvars>>
    /\ LET w == reset_within_start_and_end_range(cache, StartSize, EndSize, MaxSeqLen) IN
       IF w.st = "panic" \/ ~as_ctx_ok(w.c)
       THEN /\ op' = Op("gen_step", t, Panic(cache))
            /\ ctx' = NoCtx
            /\ UNCHANGED <<cache, phys>>
       ELSE /\ ctx' = [lo |-> as_ctx(w.c).lo, hi |-> as_ctx(w.c).hi,
                       windowed |-> TRUE]
            /\ phys' = WriteCtx(w.c, phys)
            /\ LET r == push(w.c, t) IN
               /\ cache' = r.c
               /\ op' = Op("gen_step", t, r)

\* Cache::reset_within_one_range(OneRangeMin, MaxSeqLen)
ResetOneRange ==
    /\ LET r == reset_within_one_range(cache, OneRangeMin, MaxSeqLen) IN
       /\ cache' = r.c
       /\ op' = Op("reset_within_one_range", <<>>, r)
    /\ ctx' = NoCtx
    /\ UNCHANGED phys
    /\ UNCHANGED <<wvars, tvars, dvars>>

\* Cache::revert
Revert(p) ==
    /\ LET r == revert(cache, p) IN
       /\ cache' = r.c
       /\ op' = Op("revert", p, r)
    /\ ctx' = NoCtx
    /\ UNCHANGED phys
    /\ UNCHANGED <<wvars, tvars, dvars>>

\* Cache::reset_with
ResetWith(p, ps) ==
    /\ LET r == reset_with(cache, p, ps) IN
       /\ cache' = r.c
       /\ op' = Op("reset_with", <<>>, r)
    /\ ctx' = NoCtx
    /\ UNCHANGED phys
    /\ UNCHANGED <<wvars, tvars, dvars>>

\* Cache::cleanup_before_start
Compact ==
    /\ IF is_empty(cache.cached) THEN TRUE
       ELSE cache.pos + start(cache.cached) <= MaxPos
    /\ LET r == cleanup_before_start(cache) IN
       /\ cache' = r.c
       /\ op' = Op("compact", <<>>, r)
    /\ ctx' = NoCtx
    /\ UNCHANGED phys
    /\ UNCHANGED <<wvars, tvars, dvars>>

\* prompts of the storage specification: only their lengths matter there
StoragePrompts == {<<1>>, <<1, 1>>}

\* positions handed to revert
RevertArgs == 0..(MaxPos + MaxTokens)

NextCache ==
    \/ \E p \in Prompts : Extend(p)
    \/ \E t \in Vocab : Push(t)
    \/ EvictWindow
    \/ ResetOneRange
    \/ \E p \in RevertArgs : Revert(p)
    \/ \E p \in Prompts, ps \in 0..MaxPos : ResetWith(p, ps)
    \/ Compact

NextStorage ==
    \/ \E p \in StoragePrompts : Extend(p)
    \/ StepCommit(1)
    \/ GenStep(1)
    \/ EvictWindow
    \/ ResetOneRange
    \/ \E p \in RevertArgs : revert(cache, p).st = "ok" /\ Revert(p)
    \/ Compact

----------------------------------------------------------------------------
(* A VecSliceRange driven through its operations *)

\* range bounds, ranges and vectors of ranges handed to try_from, well formed
\* or not; the vectors of test_vec_slice_range are among them
Idx == 0..MaxIdx
Ranges == {Rng(s, e) : s \in Idx, e \in Idx}
ExampleLists == {<<Rng(0, 10), Rng(20, 30)>>, <<Rng(10, 20), Rng(30, 40)>>}
RangeLists == UNION {[1..n -> Ranges] : n \in 0..MaxRanges} \cup ExampleLists

\* arguments of extend_to, sub_overall and try_shrink_end: small ones for
\* the vectors over Idx, those of test_vec_slice_range for its vectors
SmallArgs == 0..(MaxIdx + 1)
ExampleArgs == {10, 25, 40}
TrackerArgs == SmallArgs \cup ExampleArgs

\* the argument a is of the family of the vector v
ArgFits(v, a) ==
    IF is_empty(v) \/ end(v) <= MaxIdx + 1 THEN a \in SmallArgs
    ELSE a \in ExampleArgs

\* the last call: its name, the list of ranges or the number it was given,
\* its outcome and what it returned
TOp(name, list, arg, r) ==
    [name |-> name, list |-> list, arg |-> arg, st |-> r.st, ret |-> r.ret]

\* VecSliceRange::try_from(vec![])
InitTop == TOp("try_from", <<>>, 0, TDone(<<>>, Unit))

InitTrackerVars ==
    /\ tr = <<>>
    /\ top = InitTop

TrackerFrame == UNCHANGED <<cache, phys, ctx, op, wvars, dvars>>

\* no vector has been built yet: tr is try_from(vec![])
Pristine == top = InitTop /\ tr = <<>>

\* VecSliceRange::try_from: a vector is built once, from any list of ranges;
\* try_from(vec![]) starts over
TryFrom(v) ==
    /\ IF v = <<>> THEN TRUE ELSE Pristine
    /\ LET r == try_from(tr, v) IN
       /\ tr' = r.v
       /\ top' = TOp("try_from", v, 0, r)
    /\ TrackerFrame

\* From<Range<usize>>; the callers (cache.rs 25, 101, 126) pass empty ranges
FromRange(s) ==
    /\ tr' = from_range(s, s)
    /\ top' = TOp("from", <<>>, s, TDone(from_range(s, s), Unit))
    /\ TrackerFrame

\* VecSliceRange::extend_to
ExtendTo(e) ==
    /\ ArgFits(tr, e)
    /\ LET r == extend_to_call(tr, e) IN
       /\ tr' = r.v
       /\ top' = TOp("extend_to", <<>>, e, r)
    /\ TrackerFrame

\* VecSliceRange::sub_overall
SubOverall(n) ==
    /\ ArgFits(tr, n)
    /\ LET r == sub_overall_call(tr, n) IN
       /\ tr' = r.v
       /\ top' = TOp("sub_overall", <<>>, n, r)
    /\ TrackerFrame

\* VecSliceRange::try_shrink_end
TryShrinkEnd(e) ==
    /\ ArgFits(tr, e)
    /\ LET r == try_shrink_end_call(tr, e) IN
       /\ tr' = r.v
       /\ top' = TOp("try_shrink_end", <<>>, e, r)
    /\ TrackerFrame

\* Cache::get_last_cached_range_len
LastRangeLen ==
    /\ LET r == get_last_cached_range_len(cache) IN
       /\ cache' = r.c
       /\ op' = Op("get_last_cached_range_len", <<>>, r)
    /\ ctx' = NoCtx
    /\ UNCHANGED phys
    /\ UNCHANGED <<wvars, tvars, dvars>>

----------------------------------------------------------------------------
(* A Cache and its duplicate *)

\* most operations applied to the two caches after duplicate()
MaxDupOps == 2

NoDup == [made |-> FALSE, c |-> new(<<>>), h |-> OrigHandle, n |-> 0]

InitDupVars ==
    /\ dup = NoDup
    /\ heap = [h \in Handles |-> [i \in Slots |-> -1]]
    /\ who = "orig"

Sides == {"orig", "copy"}

SideCache(s) == IF s = "orig" THEN cache ELSE dup.c
SideHandle(s) == IF s = "orig" THEN OrigHandle ELSE dup.h

\* the copy exists before it is operated on
SideReady(s) ==
    /\ s = "copy" => dup.made
    /\ dup.made => dup.n < MaxDupOps

\* the outcome r of an operation on the cache of side s is stored there
DupApply(s, name, arg, r, hp) ==
    /\ op' = Op(name, arg, r)
    /\ who' = s
    /\ heap' = hp
    /\ IF s = "orig"
       THEN /\ cache' = r.c
            /\ dup' = [dup EXCEPT !.n = IF dup.made THEN @ + 1 ELSE @]
       ELSE /\ cache' = cache
            /\ dup' = [dup EXCEPT !.c = r.c, !.n = @ + 1]
    /\ UNCHANGED <<phys, ctx, wvars, tvars>>

\* Cache::duplicate
Duplicate ==
    /\ ~dup.made
    /\ LET r == duplicate(cache, heap, OrigHandle) IN
       /\ op' = Op("duplicate", <<>>, r)
       /\ heap' = r.heap
       /\ dup' = IF r.st = "ok"
                 THEN [made |-> TRUE, c |-> r.c, h |-> r.h, n |-> 0]
                 ELSE dup
    /\ who' = "orig"
    /\ ctx' = NoCtx
    /\ UNCHANGED <<cache, phys, wvars, tvars>>

\* Cache::extend on either cache
DExtend(s, p) ==
    /\ SideReady(s)
    /\ Len(SideCache(s).tokens) + Len(p) <= MaxTokens
    /\ DupApply(s, "extend", p, extend(SideCache(s), p), heap)

\* a forward-pass step over as_ctx() and the push of the sample, on either
\* cache: the step writes into the tensor that cache owns
DStepCommit(s, t) ==
    /\ SideReady(s)
    /\ Len(SideCache(s).tokens) < MaxTokens
    /\ LET c == SideCache(s) IN
       IF ~as_ctx_ok(c)
       THEN DupApply(s, "step_commit", t, Panic(c), heap)
       ELSE /\ as_ctx(c).hi <= Capacity
            /\ DupApply(s, "step_commit", t, push(c, t),
                        [heap EXCEPT ![SideHandle(s)] = WriteCtx(c, @)])

\* Cache::revert on either cache
DRevert(s, p) ==
    /\ SideReady(s)
    /\ DupApply(s, "revert", p, revert(SideCache(s), p), heap)

\* Cache::reset_within_start_and_end_range on either cache
DEvictWindow(s) ==
    /\ SideReady(s)
    /\ DupApply(s, "evict_window", <<>>,
                reset_within_start_and_end_range(SideCache(s), StartSize, EndSize,
                                                 MaxSeqLen), heap)

\* Cache::cleanup_before_start on either cache
DCompact(s) ==
    /\ SideReady(s)
    /\ DupApply(s, "compact", <<>>, cleanup_before_start(SideCache(s)), heap)

\* the tracker is exercised on its own ...
TrackerAlone == op.name = "new"
\* ... or as the field cached of a Cache
CacheAlone == Pristine /\ ~dup.made

NextTracker ==
    \/ TrackerAlone /\ \E v \in RangeLists : TryFrom(v)
    \/ TrackerAlone /\ \E s \in Idx : FromRange(s)
    \/ TrackerAlone /\ \E e \in TrackerArgs : ExtendTo(e)
    \/ TrackerAlone /\ \E n \in TrackerArgs : SubOverall(n)
    \/ TrackerAlone /\ \E e \in TrackerArgs : TryShrinkEnd(e)
    \/ CacheAlone /\ \E p \in StoragePrompts : Extend(p)
    \/ CacheAlone /\ Push(1)
    \/ CacheAlone /\ EvictWindow
    \/ CacheAlone /\ ResetOneRange
    \/ CacheAlone /\ \E p \in RevertArgs : Revert(p)
    \/ CacheAlone /\ \E ps \in 0..MaxPos : ResetWith(<<1>>, ps)
    \/ CacheAlone /\ Compact
    \/ CacheAlone /\ LastRangeLen
    \/ CacheAlone /\ Duplicate

NextDup ==
    \/ Duplicate
    \/ \E s \in Sides, p \in StoragePrompts : DExtend(s, p)
    \/ \E s \in Sides : DStepCommit(s, 1)
    \/ \E s \in Sides, p \in RevertArgs : DRevert(s, p)
    \/ \E s \in Sides : DEvictWindow(s)
    \/ \E s \in Sides : DCompact(s)

----------------------------------------------------------------------------
(* The device task: nvidia::task *)

EmptyMap == [i \in {} |-> new(<<>>)]

\* a lookup that builds a new session context every time
entry_always_new(m, id) == new(<<>>)

\* HashMap::entry(id).or_insert_with_key(SessionContext::new)
entry_or_insert(m, id) == IF id \in DOMAIN m THEN m[id] ELSE new(<<>>)

\* the map m with the context of id set to c
insert(m, id, c) == [i \in DOMAIN m \cup {id} |-> IF i = id THEN c ELSE m[i]]

\* HashMap::remove
remove(m, id) == [i \in DOMAIN m \ {id} |-> m[i]]

\* SessionContext::request for the prompt of an Infer: the prompt extends the
\* cache, then the window reset runs before the query context is built
request_prompt(c, prompt) ==
    reset_within_start_and_end_range(extend(c, prompt).c, StartSize, EndSize, MaxSeqLen)

\* SessionContext::request for a sampled token: the token is committed, then
\* the window reset runs before the query context is built
request_token(c, tok) ==
    LET r == push(c, tok) IN
    IF r.st = "panic" THEN r
    ELSE reset_within_start_and_end_range(r.c, StartSize, EndSize, MaxSeqLen)

\* a loop that tests the token only after sending it
keep_generating_always(tok) == tok # NoToken

\* the condition of the generation loop
keep_generating(tok) == tok # Eos

UnchangedCache == UNCHANGED <<cache, phys, ctx, op, tvars, dvars>>

\* a session handle sends Command::Infer
SubmitInfer(id, prompt) ==
    /\ open /\ pc \notin {"exited", "panicked"}
    /\ Len(queue) < MaxQueue /\ arrived < MaxCmds
    /\ arrived' = arrived + 1
    /\ queue' = Append(queue, Infer(id, prompt, arrived + 1))
    /\ UNCHANGED <<open, sessions, pc, cur, token, rxAlive, sampleLock, reply,
                   sampled, fed, lastDone, during, live>>
    /\ UnchangedCache

\* a session handle sends Command::Drop
SubmitDrop(id) ==
    /\ open /\ pc \notin {"exited", "panicked"}
    /\ Len(queue) < MaxQueue /\ arrived < MaxCmds
    /\ arrived' = arrived + 1
    /\ queue' = Append(queue, Drop(id, arrived + 1))
    /\ during' = IF Generating /\ cur.id = id THEN during \cup {arrived + 1}
                 ELSE during
    /\ UNCHANGED <<open, sessions, pc, cur, token, rxAlive, sampleLock, reply,
                   sampled, fed, lastDone, live>>
    /\ UnchangedCache

\* the last Sender of the command channel is dropped
CloseChannel ==
    /\ open
    /\ open' = FALSE
    /\ UNCHANGED <<queue, sessions, pc, cur, token, rxAlive, sampleLock, reply,
                   sampled, fed, arrived, lastDone, during, live>>
    /\ UnchangedCache

\* the caller of the Infer in progress drops the Receiver of its reply channel
AbandonReply ==
    /\ Generating /\ rxAlive
    /\ rxAlive' = FALSE
    /\ UNCHANGED <<queue, open, sessions, pc, cur, token, sampleLock, reply,
                   sampled, fed, arrived, lastDone, during, live>>
    /\ UnchangedCache

\* Service::sample_args / Service::set_sample_args take the lock
ClientLock ==
    /\ sampleLock = "free"
    /\ sampleLock' = "client"
    /\ UNCHANGED <<queue, open, sessions, pc, cur, token, rxAlive, reply,
                   sampled, fed, arrived, lastDone, during, live>>
    /\ UnchangedCache

\* ... and release it at the end of the statement
ClientUnlock ==
    /\ sampleLock = "client"
    /\ sampleLock' = "free"
    /\ UNCHANGED <<queue, open, sessions, pc, cur, token, rxAlive, reply,
                   sampled, fed, arrived, lastDone, during, live>>
    /\ UnchangedCache

\* recv() returns Command::Infer: the session context is looked up or
\* created and the request for the prompt is built
RecvInfer ==
    /\ pc = "recv" /\ queue # <<>> /\ Head(queue).kind = "Infer"
    /\ LET c == Head(queue)
           r == request_prompt(entry_or_insert(sessions, c.id), c.prompt)
       IN  /\ cur' = c
           /\ queue' = Tail(queue)
           /\ fed' = <<c.prompt>>
           /\ IF r.st = "panic"
              THEN pc' = "panicked" /\ sessions' = EmptyMap
              ELSE pc' = "lock" /\ sessions' = insert(sessions, c.id, r.c)
    /\ live' = live \cup {Head(queue).id}
    /\ token' = NoToken
    /\ rxAlive' = TRUE
    /\ reply' = <<>>
    /\ sampled' = <<>>
    /\ UNCHANGED <<open, sampleLock, arrived, lastDone, during>>
    /\ UnchangedCache

\* sample.lock().unwrap(), evaluated as an argument of decode
AcquireLock ==
    /\ pc = "lock" /\ sampleLock = "free"
    /\ sampleLock' = "worker"
    /\ pc' = "decode"
    /\ UNCHANGED <<queue, open, sessions, cur, token, rxAlive, reply, sampled,
                   fed, arrived, lastDone, during, live>>
    /\ UnchangedCache

\* transformer.decode returns the sampled token; the MutexGuard, a temporary
\* of the statement, is dropped at its end
DecodeReturn(t) ==
    /\ pc = "decode"
    /\ Len(reply) >= MaxGen => t = Eos
    /\ token' = t
    /\ sampled' = Append(sampled, t)
    /\ sampleLock' = "free"
    /\ pc' = "loop"
    /\ UNCHANGED <<queue, open, sessions, cur, rxAlive, reply, fed, arrived,
                   lastDone, during, live>>
    /\ UnchangedCache

\* body of the while loop up to the next decode: send the token, build the
\* request for it; send(..).unwrap() panics when the Receiver is gone
LoopSend ==
    /\ pc = "loop" /\ keep_generating(token)
    /\ IF rxAlive
       THEN LET r == request_token(sessions[cur.id], token) IN
            /\ reply' = Append(reply, token)
            /\ fed' = Append(fed, <<token>>)
            /\ IF r.st = "panic"
               THEN pc' = "panicked" /\ sessions' = EmptyMap /\ queue' = <<>>
               ELSE pc' = "lock" /\ sessions' = insert(sessions, cur.id, r.c)
                    /\ queue' = queue
       ELSE /\ pc' = "panicked"
            /\ sessions' = EmptyMap
            /\ queue' = <<>>
            /\ UNCHANGED <<reply, fed>>
    /\ UNCHANGED <<open, cur, token, rxAlive, sampleLock, sampled, arrived,
                   lastDone, during, live>>
    /\ UnchangedCache

\* the while condition fails: the Infer arm ends, back to recv()
LoopExit ==
    /\ pc = "loop" /\ ~keep_generating(token)
    /\ pc' = "recv"
    /\ lastDone' = cur.seq
    /\ cur' = NoCmd
    /\ UNCHANGED <<queue, open, sessions, token, rxAlive, sampleLock, reply,
                   sampled, fed, arrived, during, live>>
    /\ UnchangedCache

\* a Drop applied as soon as it is at the head of the channel, whatever the
\* task is doing
RecvDropAnytime ==
    /\ queue # <<>> /\ Head(queue).kind = "Drop"
    /\ pc \notin {"exited", "panicked"}
    /\ sessions' = remove(sessions, Head(queue).id)
    /\ queue' = Tail(queue)
    /\ lastDone' = Head(queue).seq
    /\ live' = live \ {Head(queue).id}
    /\ UNCHANGED <<open, pc, cur, token, rxAlive, sampleLock, reply, sampled,
                   fed, arrived, during>>
    /\ UnchangedCache

\* recv() returns Command::Drop
RecvDrop ==
    /\ pc = "recv" /\ queue # <<>> /\ Head(queue).kind = "Drop"
    /\ sessions' = remove(sessions, Head(queue).id)
    /\ queue' = Tail(queue)
    /\ lastDone' = Head(queue).seq
    /\ live' = live \ {Head(queue).id}
    /\ UNCHANGED <<open, pc, cur, token, rxAlive, sampleLock, reply, sampled,
                   fed, arrived, during>>
    /\ UnchangedCache

\* a task that returns as soon as it finds the channel empty
ExitWhenIdle ==
    /\ pc = "recv" /\ queue = <<>>
    /\ pc' = "exited"
    /\ sessions' = EmptyMap
    /\ UNCHANGED <<queue, open, cur, token, rxAlive, sampleLock, reply, sampled,
                   fed, arrived, lastDone, during, live>>
    /\ UnchangedCache

\* recv() returns Err: the channel is empty and closed; the task returns and
\* its locals are dropped
Exit ==
    /\ pc = "recv" /\ queue = <<>> /\ ~open
    /\ pc' = "exited"
    /\ sessions' = EmptyMap
    /\ UNCHANGED <<queue, open, cur, token, rxAlive, sampleLock, reply, sampled,
                   fed, arrived, lastDone, during, live>>
    /\ UnchangedCache

NextWorker ==
    \/ \E id \in Ids, p \in InferPrompts : SubmitInfer(id, p)
    \/ \E id \in Ids : SubmitDrop(id)
    \/ CloseChannel
    \/ AbandonReply
    \/ ClientLock
    \/ ClientUnlock
    \/ RecvInfer
    \/ AcquireLock
    \/ \E t \in Samples \cup {Eos} : DecodeReturn(t)
    \/ LoopSend
    \/ LoopExit
    \/ RecvDrop
    \/ Exit

vars == <<cache, phys, ctx, op, queue, open, sessions, pc, cur, token, rxAlive,
         sampleLock, reply, sampled, fed, arrived, lastDone, during, live,
         tr, top, dup, heap, who>>

InitCache == InitCacheVars /\ InitWorkerVars /\ InitTrackerVars /\ InitDupVars

InitWorker == InitCacheVars /\ InitWorkerVars /\ InitTrackerVars /\ InitDupVars

\* one Cache through the operations of cache.rs
Spec == InitCache /\ [][NextCache]_vars

\* one Cache and its tensor through generation steps
SpecStorage == InitCache /\ [][NextStorage]_vars

\* the device task and the threads that talk to it
SpecWorker == InitWorker /\ [][NextWorker]_vars

\* the device task under a scheduler that lets it return when recv() fails
SpecWorkerFair == SpecWorker /\ WF_vars(Exit)

\* the device task under a scheduler that runs it whenever it can take a
\* step: recv() returns what is queued, decode returns, lock() is granted
\* once the Mutex is free often enough, and a client that holds the Mutex
\* releases it
SpecWorkerLive ==
    /\ SpecWorker
    /\ WF_vars(RecvInfer) /\ WF_vars(RecvDrop) /\ WF_vars(Exit)
    /\ SF_vars(AcquireLock)
    /\ WF_vars(\E t \in Samples \cup {Eos} : DecodeReturn(t))
    /\ WF_vars(LoopSend) /\ WF_vars(LoopExit)
    /\ WF_vars(ClientUnlock)

\* a VecSliceRange on its own, or inside a Cache
SpecTracker == InitCache /\ [][NextTracker]_vars

\* a Cache and the Cache duplicate() made of it
SpecDup == InitCache /\ [][NextDup]_vars

----------------------------------------------------------------------------
(* Properties of the Cache *)

\* tokens indices marked cached by the interval set v
Covered(v) == {i \in 0..MaxTokens : \E k \in 1..Len(v) : v[k].start <= i /\ i < v[k].end}

\* the covered indices of v in increasing order
RECURSIVE CachedSeq(_, _)
CachedSeq(v, k) ==
    IF k > Len(v) THEN <<>>
    ELSE [j \in 1..RangeLen(v[k]) |-> v[k].start + j - 1] \o CachedSeq(v, k + 1)

\* l lies strictly between two consecutive ranges of v, or beyond its end
InGapOrBeyond(v, l) ==
    \/ l > v[Len(v)].end
    \/ \E k \in 1..(Len(v) - 1) : v[k].end < l /\ l < v[k + 1].start

\* C3: when the window reset runs before the query context is built, the
\* range handed to the forward pass ends at most at the maximum sequence
\* length, hence inside the tensor.
C3_CtxWithinCapacity ==
    ctx.windowed => (ctx.lo <= ctx.hi /\ ctx.hi <= MaxSeqLen /\ ctx.hi <= Capacity)

\* a generation step whose window reset discarded the middle of a cache
\* that had outgrown the maximum sequence length
C3_Witness ==
    /\ ctx.windowed
    /\ op.name = "gen_step" /\ op.st = "ok"
    /\ Len(cache.tokens) > MaxSeqLen
    /\ Len(cache.cached) = 2
    /\ ctx.hi > ctx.lo

\* C4: slot i of the tensor, for every i below cached.len(), holds the entry
\* of the i-th cached token in increasing order of tokens index.
C4_PhysCompacted ==
    LET cs == CachedSeq(cache.cached, 1) IN
    \A i \in Slots : i < len(cache.cached) => phys[i] = cache.pos + cs[i + 1]

\* two non-empty cached runs separated by a gap, all entries in the tensor
C4_Witness ==
    /\ Len(cache.cached) = 2
    /\ RangeLen(cache.cached[1]) > 0
    /\ RangeLen(cache.cached[2]) > 0
    /\ cache.cached[1].end < cache.cached[2].start
    /\ op.name \in {"gen_step", "step_commit"} /\ op.st = "ok"

\* C5: every range bound of cached is at most tokens.len().
C5_CachedWithinTokens ==
    \A k \in 1..Len(cache.cached) :
        /\ cache.cached[k].start <= Len(cache.tokens)
        /\ cache.cached[k].end <= Len(cache.tokens)

\* a successful revert that cut tokens down to the end of a cached run
C5_Witness ==
    /\ op.name = "revert" /\ op.st = "ok"
    /\ ~is_empty(cache.cached)
    /\ end(cache.cached) = Len(cache.tokens)
    /\ Len(cache.tokens) > 0

\* C6: query() is defined in every state and is tokens[cached.end()..].
C6_QueryDefined ==
    /\ query_ok(cache)
    /\ Len(query(cache)) = Len(cache.tokens) - end(cache.cached)

\* C7: after push(t), the tokens that were pending are cached, cached.end()
\* is tokens.len() - 1 and query() is [t]; a new cache extended with [1,2,3]
\* has query() [1,2,3] and after push(4) has query() [4], cached.len() 3.
C7_PushCommits ==
    [][(op'.name = "push" /\ op'.st = "ok") =>
         /\ \A i \in 0..(Len(cache.tokens) - 1) :
               i >= end(cache.cached) => i \in Covered(cache'.cached)
         /\ Covered(cache.cached) \subseteq Covered(cache'.cached)
         /\ end(cache'.cached) = Len(cache'.tokens) - 1
         /\ query(cache') = <<op'.arg>>
         /\ (cache = [new(<<1, 2, 3>>) EXCEPT !.pos = cache.pos] /\ op'.arg = 4) =>
               (query(cache) = <<1, 2, 3>> /\ len(cache'.cached) = 3)
      ]_vars

\* the scenario's final state: [1,2,3] cached, 4 pending
C7_Witness ==
    /\ op.name = "push" /\ op.st = "ok" /\ op.arg = 4
    /\ cache.tokens = <<1, 2, 3, 4>>
    /\ cache.cached = from_range(0, 3)

\* C8: a window reset called at compacted length >= max completes and leaves
\* exactly the truncated first range and a zero-length marker at
\* tokens.len() - end_size.
C8_EvictCompletes ==
    [][(op'.name = "evict_window" /\ ~is_empty(cache.cached)
           /\ CompactedLen(cache) >= MaxSeqLen) =>
         /\ op'.st = "ok"
         /\ Len(cache'.cached) = 2
         /\ cache'.cached[1].start = cache.cached[1].start
         /\ cache'.cached[1].end <= cache.cached[1].end
         /\ RangeLen(cache'.cached[1]) <= StartSize
         /\ cache'.cached[2] = Rng(Len(cache.tokens) - EndSize, Len(cache.tokens) - EndSize)
      ]_vars

\* C9: revert on a clean cache to a position before pos, in a gap or beyond
\* cached.end() returns None and changes nothing.
C9_RevertNotPossible ==
    [][(/\ op'.name = "revert"
        /\ ~is_empty(cache.cached) /\ start(cache.cached) = 0
        /\ \/ op'.arg < cache.pos
           \/ InGapOrBeyond(cache.cached, op'.arg - cache.pos)) =>
         (op'.st = "none" /\ op'.ret = NoRet /\ cache' = cache)
      ]_vars

\* a refused revert into the gap the window reset left, tokens present
C9_Witness ==
    /\ op.name = "revert" /\ op.st = "none"
    /\ Len(cache.cached) = 2
    /\ op.arg >= cache.pos
    /\ cache.cached[1].end < op.arg - cache.pos
    /\ op.arg - cache.pos < cache.cached[2].start
    /\ Len(cache.tokens) > op.arg - cache.pos

\* C10: a successful revert with len = target_pos - pos leaves tokens as its
\* former prefix of length len, cached covering the formerly cached indices
\* below len with cached.end() <= len, pos unchanged, and returns
\* cached.len().
C10_RevertResult ==
    [][(op'.name = "revert" /\ op'.st = "ok") =>
         LET l == op'.arg - cache.pos IN
         /\ Len(cache'.tokens) = l
         /\ cache'.tokens = SubSeq(cache.tokens, 1, l)
         /\ Covered(cache'.cached) = {i \in Covered(cache.cached) : i < l}
         /\ ~is_empty(cache'.cached)
         /\ end(cache'.cached) <= l
         /\ cache_end(cache') <= op'.arg
         /\ cache'.pos = cache.pos
         /\ op'.ret = len(cache'.cached)
      ]_vars

----------------------------------------------------------------------------
(* Properties of the device task *)

\* C1: commands are processed in arrival order, one at a time; a session
\* context is removed by a Drop only when the task is back in recv() after
\* the previous Infer sampled Eos, and every step of a generation finds its
\* session context in the table.
C1_InOrderOneAtATime ==
    [][/\ (cur' # cur /\ cur' # NoCmd) =>
            (pc = "recv" /\ cur = NoCmd /\ cur'.seq = lastDone + 1)
       /\ (lastDone' # lastDone) => (lastDone' = lastDone + 1)
       /\ (pc' \in {"lock", "decode", "loop"}) =>
            (cur'.kind = "Infer" /\ cur'.id \in DOMAIN sessions')
       /\ \A id \in Ids :
            (id \in DOMAIN sessions /\ id \notin DOMAIN sessions'
                /\ pc' \notin {"panicked", "exited"}) =>
              /\ pc = "recv" /\ cur = NoCmd
              /\ Head(queue) = Drop(id, lastDone + 1)
              /\ (sampled = <<>> \/ sampled[Len(sampled)] = Eos)
      ]_vars

\* a Drop submitted during the generation of its own session has been applied
\* after that generation sent a token and then sampled Eos
C1_Witness ==
    /\ pc = "recv"
    /\ lastDone \in during
    /\ Len(reply) > 0
    /\ sampled = Append(reply, Eos)
    /\ DOMAIN sessions = {}

\* C2: the reply channel carries exactly the tokens sampled before the first
\* Eos, in order; Eos is neither sent nor committed to a cache; each sent
\* token is the one-token prompt of the next step.
C2_ReplyIsSampledPrefix ==
    /\ \A i \in 1..Len(reply) : reply[i] # Eos
    /\ \A id \in DOMAIN sessions : \A i \in 1..Len(sessions[id].tokens) :
          sessions[id].tokens[i] # Eos
    /\ pc \in {"lock", "decode"} => sampled = reply
    /\ pc = "loop" => sampled = Append(reply, token)
    /\ (pc \in {"recv", "exited"} /\ sampled # <<>>) => sampled = Append(reply, Eos)
    /\ Generating =>
          /\ Len(fed) = Len(reply) + 1
          /\ fed[1] = cur.prompt
          /\ \A i \in 1..Len(reply) : fed[i + 1] = <<reply[i]>>
          /\ LET tk == sessions[cur.id].tokens
                 tail == cur.prompt \o reply
             IN  /\ Len(tk) >= Len(tail)
                 /\ SubSeq(tk, Len(tk) - Len(tail) + 1, Len(tk)) = tail

\* a finished Infer that sent two different tokens before Eos was sampled
C2_Witness ==
    /\ pc = "recv"
    /\ Len(reply) = 2 /\ reply[1] # reply[2]
    /\ sampled = Append(reply, Eos)

----------------------------------------------------------------------------
(* Properties of duplicate() *)

\* C11: duplicate() on a clean cache yields a cache with equal tokens, pos
\* and cached and a tensor of its own that holds the original's entries up
\* to cached.end(); afterwards an operation on the copy leaves the
\* original's tokens, pos, cached and tensor unchanged, and an operation on
\* the original leaves the copy's unchanged.
C11_DuplicateIndependent ==
    [][/\ (op'.name = "duplicate" /\ op'.st = "ok") =>
            /\ dup'.made
            /\ dup'.c = cache
            /\ cache' = cache
            /\ dup'.h # OrigHandle
            /\ heap'[OrigHandle] = heap[OrigHandle]
            /\ \A i \in Slots :
                  i < end(cache.cached) => heap'[dup'.h][i] = heap[OrigHandle][i]
       /\ (dup.made /\ who' = "copy") =>
            (cache' = cache /\ heap'[OrigHandle] = heap[OrigHandle])
       /\ (dup.made /\ who' = "orig") =>
            (dup'.c = dup.c /\ dup'.h = dup.h /\ heap'[dup.h] = heap[dup.h])
      ]_vars

\* a step on the copy wrote an entry into the copy's tensor that the
\* original's tensor does not hold
C11_Witness ==
    /\ dup.made /\ who = "copy"
    /\ op.name = "step_commit" /\ op.st = "ok"
    /\ len(cache.cached) > 0
    /\ dup.c # cache
    /\ heap[dup.h] # heap[OrigHandle]

----------------------------------------------------------------------------
(* Properties of the VecSliceRange *)

\* positions a vector of ranges tracks
Positions(v) == UNION {v[k].start..(v[k].end - 1) : k \in 1..Len(v)}

\* every range has start <= end and the ranges are in order, none overlapping
WellFormed(v) ==
    /\ \A k \in 1..Len(v) : v[k].start <= v[k].end
    /\ \A j, k \in 1..Len(v) : j < k => v[j].end <= v[k].start

\* C12: revert and duplicate on a cache whose cached.start() is not 0,
\* extend_to(end) with end < end(), sub_overall(n) with n > start() and
\* get_last_cached_range_len on an empty cached each panic and leave tokens,
\* pos and cached (the vector, for the two calls on it) as they were.
C12_ViolationsAbort ==
    [][/\ (/\ op'.name \in {"revert", "duplicate"}
           /\ ~is_empty(cache.cached) /\ start(cache.cached) # 0) =>
            (op'.st = "panic" /\ cache' = cache /\ ~dup'.made)
       /\ (op'.name = "get_last_cached_range_len" /\ is_empty(cache.cached)) =>
            (op'.st = "panic" /\ cache' = cache)
       /\ (top'.name = "extend_to" /\ ~is_empty(tr) /\ top'.arg < end(tr)) =>
            (top'.st = "panic" /\ tr' = tr)
       /\ (top'.name = "sub_overall" /\ ~is_empty(tr) /\ top'.arg > start(tr)) =>
            (top'.st = "panic" /\ tr' = tr)
      ]_vars

\* a revert to the end of the tokens, refused on a cache that is not clean
C12_Witness ==
    /\ op.name = "revert" /\ op.st = "panic"
    /\ ~is_empty(cache.cached) /\ start(cache.cached) > 0
    /\ op.arg = cache_end(cache)

\* C13: try_from panics on a list with a range of start > end or with
\* consecutive ranges a, b of a.end > b.start and builds the vector of any
\* other list; every vector reached from there by extend_to, sub_overall and
\* try_shrink_end, and every cached a Cache operation installs, is well
\* formed.
C13_TrackerWellFormed ==
    /\ [](WellFormed(tr) /\ WellFormed(cache.cached))
    /\ [][top'.name = "try_from" =>
            IF WellFormed(top'.list)
            THEN top'.st = "ok" /\ tr' = top'.list
            ELSE top'.st = "panic" /\ tr' = tr
         ]_vars

\* a list whose ranges overlap was refused
C13_Witness ==
    /\ top.name = "try_from" /\ top.st = "panic"
    /\ Len(top.list) = 2
    /\ top.list[1].start <= top.list[1].end
    /\ top.list[2].start <= top.list[2].end
    /\ top.list[1].end > top.list[2].start

\* C14: try_shrink_end(new_end) returns false and changes nothing when no
\* range has start <= new_end <= end; otherwise it returns true, keeps the
\* ranges before the covering one, drops those after it and trims the
\* covering one to end at new_end, or removes it when new_end is its start;
\* the positions tracked afterwards are those tracked before that lie below
\* new_end.  [0..10, 20..30] shrunk to 25 is [0..10, 20..25].
C14_ShrinkTo ==
    [][top'.name = "try_shrink_end" =>
         LET e == top'.arg IN
         /\ top'.st = "ok"
         /\ IF \A k \in 1..Len(tr) : ~(tr[k].start <= e /\ e <= tr[k].end)
            THEN top'.ret = <<FALSE>> /\ tr' = tr
            ELSE /\ top'.ret = <<TRUE>>
                 /\ \E k \in 1..Len(tr) :
                       /\ tr[k].start <= e /\ e <= tr[k].end
                       /\ SubSeq(tr', 1, k - 1) = SubSeq(tr, 1, k - 1)
                       /\ IF tr[k].start = e
                          THEN Len(tr') = k - 1
                          ELSE Len(tr') = k /\ tr'[k] = Rng(tr[k].start, e)
                 /\ Positions(tr') = {i \in Positions(tr) : i < e}
         /\ (tr = <<Rng(0, 10), Rng(20, 30)>> /\ e = 25) =>
               tr' = <<Rng(0, 10), Rng(20, 25)>>
      ]_vars

\* the vector of the example after the call of the example
C14_Witness ==
    /\ top.name = "try_shrink_end" /\ top.arg = 25
    /\ tr = <<Rng(0, 10), Rng(20, 25)>>

\* C15: on a vector that is not empty, extend_to(end) with end >= end() sets
\* the end of the last range to end and changes nothing else; with
\* end < end() it panics and changes nothing; end() never decreases.
\* [0..10, 20..30] extended to 40 is [0..10, 20..40].
C15_ExtendTo ==
    [][(top'.name = "extend_to" /\ ~is_empty(tr)) =>
         LET e == top'.arg IN
         /\ IF e >= end(tr)
            THEN /\ top'.st = "ok"
                 /\ Len(tr') = Len(tr)
                 /\ \A k \in 1..(Len(tr) - 1) : tr'[k] = tr[k]
                 /\ tr'[Len(tr)].start = tr[Len(tr)].start
                 /\ end(tr') = e
            ELSE top'.st = "panic" /\ tr' = tr
         /\ end(tr') >= end(tr)
         /\ (tr = <<Rng(0, 10), Rng(20, 30)>> /\ e = 40) =>
               tr' = <<Rng(0, 10), Rng(20, 40)>>
      ]_vars

\* the vector of the example after the call of the example
C15_Witness ==
    /\ top.name = "extend_to" /\ top.st = "ok" /\ top.arg = 40
    /\ tr = <<Rng(0, 10), Rng(20, 40)>>

\* C16: on a vector that is not empty, sub_overall(n) with n <= start()
\* subtracts n from both bounds of every range: the number of ranges, the
\* length of each and len() are unchanged, and adding n back to every bound
\* gives the ranges it started from.  [10..20, 30..40] less 10 is
\* [0..10, 20..30].
C16_ShiftDown ==
    [][(top'.name = "sub_overall" /\ ~is_empty(tr) /\ top'.arg <= start(tr)) =>
         LET n == top'.arg IN
         /\ top'.st = "ok"
         /\ Len(tr') = Len(tr)
         /\ \A k \in 1..Len(tr) :
               /\ tr'[k].start = tr[k].start - n
               /\ tr'[k].end = tr[k].end - n
               /\ RangeLen(tr'[k]) = RangeLen(tr[k])
         /\ len(tr') = len(tr)
         /\ [k \in 1..Len(tr') |-> Rng(tr'[k].start + n, tr'[k].end + n)] = tr
         /\ (tr = <<Rng(10, 20), Rng(30, 40)>> /\ n = 10) =>
               tr' = <<Rng(0, 10), Rng(20, 30)>>
      ]_vars

\* the vector of the example after the call of the example
C16_Witness ==
    /\ top.name = "sub_overall" /\ top.st = "ok" /\ top.arg = 10
    /\ tr = <<Rng(0, 10), Rng(20, 30)>>

----------------------------------------------------------------------------
(* Further properties of the Cache and of the device task *)

\* C17: in every reachable state cleanup_before_start completes and leaves
\* cached.start() = 0, and a second call right after it changes none of
\* tokens, pos and cached.
C17_CompactIdempotent ==
    op.name = "compact" =>
        /\ op.st = "ok"
        /\ ~is_empty(cache.cached)
        /\ start(cache.cached) = 0
        /\ cleanup_before_start(cache).st = "ok"
        /\ cleanup_before_start(cache).c = cache

\* C18: while the task is inside transformer.decode the Mutex of the
\* sampling arguments is free.
C18_LockFreeDuringDecode ==
    pc = "decode" => sampleLock = "free"

\* C19: the session table holds exactly the ids whose last processed command
\* was an Infer.  An Infer adds its id and no other; it starts from an empty
\* cache when the id was absent and from the cache the earlier commands left
\* otherwise.  A Drop removes its id and no other, and nothing when the id is
\* absent.  No other step of the task touches the table's ids or the context
\* of a session other than the one being served.
C19_SessionTable ==
    /\ [](pc \notin {"exited", "panicked"} => DOMAIN sessions = live)
    /\ [][pc' \notin {"exited", "panicked"} =>
            IF cur' # cur /\ cur'.kind = "Infer"
            THEN LET id == cur'.id
                     had == id \in DOMAIN sessions
                 IN  /\ DOMAIN sessions' = DOMAIN sessions \cup {id}
                     /\ \A j \in DOMAIN sessions \ {id} : sessions'[j] = sessions[j]
                     /\ sessions'[id].tokens =
                           (IF had THEN sessions[id].tokens ELSE <<>>) \o cur'.prompt
                     /\ sessions'[id].pos = (IF had THEN sessions[id].pos ELSE 0)
                     /\ ~had => Covered(sessions'[id].cached) = {}
                     /\ had => Covered(sessions'[id].cached)
                                  \subseteq Covered(sessions[id].cached)
            ELSE IF pc = "recv" /\ lastDone' # lastDone
            THEN LET id == Head(queue).id IN
                 /\ Head(queue).kind = "Drop"
                 /\ DOMAIN sessions' = DOMAIN sessions \ {id}
                 /\ \A j \in DOMAIN sessions' : sessions'[j] = sessions[j]
                 /\ id \notin DOMAIN sessions => sessions' = sessions
            ELSE /\ DOMAIN sessions' = DOMAIN sessions
                 /\ \A j \in DOMAIN sessions \ {cur.id} : sessions'[j] = sessions[j]
         ]_vars

\* a second Infer of a session found the tokens of the first one in its
\* cache, while the table holds that session only
C19_Witness ==
    /\ pc = "lock" /\ reply = <<>>
    /\ DOMAIN sessions = {cur.id}
    /\ Len(sessions[cur.id].tokens) > Len(cur.prompt)
    /\ lastDone > 0

\* C20: the task returns only from recv() on a channel that is closed and
\* empty, and its session table is dropped with it; once the channel is
\* closed and empty and the task is back in recv(), it returns.
C20_ShutdownOnClose ==
    /\ [](pc = "exited" => (~open /\ queue = <<>> /\ sessions = EmptyMap))
    /\ [][(pc' = "exited" /\ pc # "exited") =>
            (pc = "recv" /\ ~open /\ queue = <<>> /\ sessions' = EmptyMap)]_vars
    /\ ((pc = "recv" /\ ~open /\ queue = <<>>) ~> (pc = "exited"))

\* the task returned after it had served an Infer whose session it still held
\* and every command submitted had been processed
C20_Witness ==
    /\ pc = "exited"
    /\ live # {}
    /\ sessions = EmptyMap
    /\ lastDone = arrived

----------------------------------------------------------------------------
(* Frame properties of the Cache *)

\* C21: extend, push, revert, the window reset and query leave pos
\* unchanged; cleanup_before_start is the only operation that changes pos,
\* and it only increases it.
C21_PosOnlyByCompact ==
    [][cache'.pos # cache.pos =>
         (op'.name = "compact" /\ cache'.pos > cache.pos)]_vars

\* C21 as amended: pos is changed by cleanup_before_start, which only
\* increases it, and by reset_with, which replaces tokens, pos and cached
\* altogether; by no other operation.
C21_PosOnlyByCompactOrReset ==
    [][/\ op'.name \notin {"compact", "reset_with"} => cache'.pos = cache.pos
       /\ op'.name = "compact" =>
            /\ cache'.pos >= cache.pos
            /\ cache'.pos > cache.pos <=>
                  (~is_empty(cache.cached) /\ start(cache.cached) > 0)
       /\ op'.name = "reset_with" => cache'.cached = from_range(0, 0)
      ]_vars

\* a successful revert on a cache that compaction had moved to pos > 0
C21_Witness ==
    /\ op.name = "revert" /\ op.st = "ok"
    /\ cache.pos > 0
    /\ op.arg > cache.pos
    /\ Len(cache.tokens) > 0

\* C22: the window reset changes nothing when tokens.len() - cached.end() +
\* cached.len() < max, and only cached when it is >= max: tokens, those of
\* the discarded span included, and pos stay as they were.
C22_EvictFrame ==
    [][op'.name = "evict_window" =>
         /\ cache'.tokens = cache.tokens
         /\ cache'.pos = cache.pos
         /\ IF is_empty(cache.cached) THEN cache' = cache
            ELSE CompactedLen(cache) < MaxSeqLen => (op'.st = "ok" /\ cache' = cache)
      ]_vars

\* a window reset that discarded a cached span whose tokens are still there
C22_Witness ==
    /\ op.name = "evict_window" /\ op.st = "ok"
    /\ Len(cache.cached) = 2
    /\ cache.cached[1].end < cache.cached[2].start
    /\ Len(cache.tokens) >= MaxSeqLen
    /\ \E i, j \in 1..Len(cache.tokens) : cache.tokens[i] # cache.tokens[j]

\* C23: with k = cached.start() before cleanup_before_start, afterwards
\* tokens is the former tokens[k..], pos is larger by k and every bound of
\* cached smaller by k; end(), query(), cached.len() and slice_tail(p) for
\* every p from the new pos on are what they were.
C23_CompactRenumbers ==
    [][(op'.name = "compact" /\ ~is_empty(cache.cached)) =>
         LET k == start(cache.cached) IN
         /\ op'.st = "ok"
         /\ cache'.tokens = SubSeq(cache.tokens, k + 1, Len(cache.tokens))
         /\ cache'.pos = cache.pos + k
         /\ Len(cache'.cached) = Len(cache.cached)
         /\ \A i \in 1..Len(cache.cached) :
               cache'.cached[i] = Rng(cache.cached[i].start - k, cache.cached[i].end - k)
         /\ start(cache'.cached) = 0
         /\ cache_end(cache') = cache_end(cache)
         /\ query_ok(cache') /\ query(cache') = query(cache)
         /\ len(cache'.cached) = len(cache.cached)
         /\ \A p \in cache'.pos..cache_end(cache') :
               /\ slice_tail_ok(cache', p) /\ slice_tail_ok(cache, p)
               /\ slice_tail(cache', p) = slice_tail(cache, p)
      ]_vars

\* a compaction that removed a prefix and kept tokens that differ
C23_Witness ==
    /\ op.name = "compact" /\ op.st = "ok"
    /\ cache.pos > 0
    /\ Len(cache.tokens) >= 2
    /\ cache.tokens[1] # cache.tokens[Len(cache.tokens)]

----------------------------------------------------------------------------
(* The tracker of a Cache, abandoned replies, progress of the queue and the
   size of the copy duplicate() asks for *)

\* C24: cached holds at least one range in every state reached from new()
\* by extend, push, revert, the window reset, reset_with and
\* cleanup_before_start, so cached.start() and cached.end() are defined.
C24_TrackerNeverEmpty ==
    ~is_empty(cache.cached)

\* C25: the task does not stop when the Receiver of the reply channel of the
\* Infer it is serving has been dropped.
C25_AbandonKeepsWorker ==
    ~rxAlive => pc # "panicked"

\* C26: with decode returning and every generation sampling Eos in the end,
\* every command submitted is processed at some point; the generation loop
\* is left towards recv() only on Eos.
C26_EveryCommandProcessed ==
    /\ \A n \in 1..MaxCmds : (arrived >= n) ~> (lastDone >= n)
    /\ [][(Generating /\ pc' = "recv") => token = Eos]_vars

\* C27: on every clean cache duplicate() asks for a copy of cached.end()
\* entries, which is at most the capacity of the tensor and at least
\* cached.len().
C27_CopyWithinCapacity ==
    (op.name = "duplicate" /\ op.st = "ok") =>
        /\ end(cache.cached) <= Capacity
        /\ end(cache.cached) >= len(cache.cached)

====
